---- MODULE Spec2Model ----
(***************************************************************************)
(* Model of the streaming decoder of anthropic-go (src/messages.go):       *)
(* MessageStream.Recv, Close and ErrorUnknownEvent over a server-sent-     *)
(* event byte stream, and the consumer loop of TestMessagesStream.         *)
(*                                                                         *)
(* A stream is a sequence of lines.  A line is modelled by the result of   *)
(* strings.TrimSpace followed by strings.SplitN(line, ": ", 2):            *)
(*   <<>>              a blank line                                        *)
(*   <<text>>          a non-blank line without the ": " separator         *)
(*   <<field, value>>  a "field: value" line                               *)
(* The value of a data line is the JSON document it carries, modelled as a *)
(* record of optional keys.  An optional value (a JSON key, a Go pointer)  *)
(* is <<>> when absent/nil and <<v>> when present.                         *)
(***************************************************************************)
EXTENDS Integers, Sequences, FiniteSets, TLC

VARIABLES
    frames,               \* the frames the server sends, fixed for a run
    tail,                 \* how the body ends: "EOF" or a transport read error "ERR"
    pos,                  \* s.reader: index of the next unread line
    event,                \* s.event, the MessageStreamEvent reused by every Recv
    ignoreUnknownEvents,  \* s.ignoreUnknownEvents
    ret,                  \* what the last Recv returned, and how its loop ended
    bodyCloseCalls,       \* number of s.resp.Body.Close() calls made so far
    content,              \* TestMessagesStream: the accumulated text
    callerPc,             \* TestMessagesStream: "idle", "loop", "done", "crashed"
    client,               \* a Client, its last request and what the call returned
    pair                  \* two further MessageStream handles, pulled in any order

vars == <<frames, tail, pos, event, ignoreUnknownEvents, ret, bodyCloseCalls,
          content, callerPc, client, pair>>

----------------------------------------------------------------------------
(* Bounds *)

MaxFrames == 3

MaxUsageFrames == 4

MaxTestFrames == 3

MaxClose == 2

MaxContent == 4

MaxPairFrames == 2

MaxPairRecv == 2

----------------------------------------------------------------------------
(* Optional values *)

Absent == <<>>

Some(x) == <<x>>

GetOr(opt, d) == IF Len(opt) = 0 THEN d ELSE opt[1]

----------------------------------------------------------------------------
(* The StreamEvent constants, messages.go:15-24 *)

StreamEventPing == "ping"

StreamEventError == "error"

StreamEventMessageStart == "message_start"

StreamEventMessageStop == "message_stop"

StreamEventMessageDelta == "message_delta"

StreamEventContentBlockStart == "content_block_start"

StreamEventContentBlockStop == "content_block_stop"

StreamEventContentBlockDelta == "content_block_delta"

----------------------------------------------------------------------------
(* Go zero values of the decoded types *)

\* Message (messages.go:34-43); Role, Type, Model, StopReason behave as ID.
ZeroMessage == [ID |-> "", InputTokens |-> 0, OutputTokens |-> 0]

\* MessageStreamEvent (messages.go:26-32)
ZeroEvent == [Type |-> "", Message |-> Absent, Delta |-> Absent,
              ContentBlock |-> Absent, Index |-> 0]

----------------------------------------------------------------------------
(* JSON documents carried by data lines.  valid = FALSE is text that is    *)
(* not a JSON document.                                                    *)

NoDoc == [valid |-> TRUE, type |-> Absent, message |-> Absent, delta |-> Absent,
          usage |-> Absent, text |-> Absent, index |-> Absent]

NotJson == [NoDoc EXCEPT !.valid = FALSE]

\* {"type":"message_start","message":{"id":id,"usage":{"input_tokens":in,"output_tokens":out}}}
MessageStartDoc(id, in, out) ==
    [NoDoc EXCEPT !.type = Some("message_start"),
                  !.message = Some([id |-> Some(id), input_tokens |-> Some(in),
                                    output_tokens |-> Some(out)])]

\* {"type":"message_stop"}
MessageStopDoc == [NoDoc EXCEPT !.type = Some("message_stop")]

\* {"type":"message_delta","delta":{"stop_reason":sr},"usage":{"output_tokens":out}}
MessageDeltaDoc(sr, out) ==
    [NoDoc EXCEPT !.type = Some("message_delta"),
                  !.delta = Some([stop_reason |-> Some(sr), type |-> Absent, text |-> Absent]),
                  !.usage = Some([output_tokens |-> out])]

\* {"type":"message_delta","delta":{"stop_reason":sr}}: the usage is omitted
MessageDeltaNoUsageDoc(sr) == [MessageDeltaDoc(sr, 0) EXCEPT !.usage = Absent]

\* {"type":"text","text":""}
ContentBlockDoc(txt) == [NoDoc EXCEPT !.type = Some("text"), !.text = Some(txt)]

\* {"type":"content_block_delta","index":i,"delta":{"type":"text_delta","text":txt}}
ContentBlockDeltaDoc(i, txt) ==
    [NoDoc EXCEPT !.type = Some("content_block_delta"), !.index = Some(i),
                  !.delta = Some([stop_reason |-> Absent, type |-> Some("text_delta"),
                                  text |-> Some(txt)])]

\* {"type":"error"}
ErrorDoc == [NoDoc EXCEPT !.type = Some("error")]

----------------------------------------------------------------------------
(* Lines and frames of the wire format *)

BlankLine == <<>>

NoSepLine == <<"garbage">>

EventLine(name) == <<"event", name>>

DataLine(doc) == <<"data", doc>>

Frame(name, doc) == <<EventLine(name), DataLine(doc), BlankLine>>

PingFrame == <<EventLine(StreamEventPing), BlankLine>>

MalformedFrame ==
    <<EventLine(StreamEventContentBlockDelta), NoSepLine,
      DataLine(ContentBlockDeltaDoc(0, "A")), BlankLine>>

RECURSIVE Flatten(_)
Flatten(fs) == IF Len(fs) = 0 THEN <<>> ELSE Head(fs) \o Flatten(Tail(fs))

Stream == Flatten(frames)

SeqsUpTo(S, n) == UNION {[1..k -> S] : k \in 0..n}

----------------------------------------------------------------------------
(* Recv, the frame reader: the for loop of messages.go:155-189.            *)
(* exit is how the loop was left: "eof" (break at 159), "ioerr" (return at *)
(* 161), "blank" (break at 171) or "nosep" (return at 176).                *)

\* ReadLoop without the ping test of messages.go:167-170
RECURSIVE ReadLoop_NoPingSkip(_, _, _, _, _)
ReadLoop_NoPingSkip(stream, tl, p, eventType, data) ==
    IF p > Len(stream)
    THEN [pos |-> p, eventType |-> eventType, data |-> data,
          exit |-> IF tl = "EOF" THEN "eof" ELSE "ioerr"]
    ELSE LET line == stream[p] IN
         IF Len(line) = 0
         THEN [pos |-> p + 1, eventType |-> eventType, data |-> data, exit |-> "blank"]
         ELSE IF Len(line) # 2
         THEN [pos |-> p + 1, eventType |-> eventType, data |-> data, exit |-> "nosep"]
         ELSE IF line[1] = "event"
         THEN ReadLoop_NoPingSkip(stream, tl, p + 1, line[2], data)
         ELSE IF line[1] = "data"
         THEN ReadLoop_NoPingSkip(stream, tl, p + 1, eventType, Append(data, line[2]))
         ELSE ReadLoop_NoPingSkip(stream, tl, p + 1, eventType, data)

\* ReadLoop that treats a line without separator as a field to ignore
RECURSIVE ReadLoop_SkipNoSep(_, _, _, _, _)
ReadLoop_SkipNoSep(stream, tl, p, eventType, data) ==
    IF p > Len(stream)
    THEN [pos |-> p, eventType |-> eventType, data |-> data,
          exit |-> IF tl = "EOF" THEN "eof" ELSE "ioerr"]
    ELSE LET line == stream[p] IN
         IF Len(line) = 0
         THEN IF eventType = StreamEventPing
              THEN ReadLoop_SkipNoSep(stream, tl, p + 1, eventType, <<>>)
              ELSE [pos |-> p + 1, eventType |-> eventType, data |-> data, exit |-> "blank"]
         ELSE IF Len(line) # 2
         THEN ReadLoop_SkipNoSep(stream, tl, p + 1, eventType, data)
         ELSE IF line[1] = "event"
         THEN ReadLoop_SkipNoSep(stream, tl, p + 1, line[2], data)
         ELSE IF line[1] = "data"
         THEN ReadLoop_SkipNoSep(stream, tl, p + 1, eventType, Append(data, line[2]))
         ELSE ReadLoop_SkipNoSep(stream, tl, p + 1, eventType, data)

RECURSIVE ReadLoop(_, _, _, _, _)
ReadLoop(stream, tl, p, eventType, data) ==
    IF p > Len(stream)
    THEN [pos |-> p, eventType |-> eventType, data |-> data,
          exit |-> IF tl = "EOF" THEN "eof" ELSE "ioerr"]
    ELSE LET line == stream[p] IN
         IF Len(line) = 0
         THEN IF eventType = StreamEventPing
              THEN ReadLoop(stream, tl, p + 1, eventType, <<>>)
              ELSE [pos |-> p + 1, eventType |-> eventType, data |-> data, exit |-> "blank"]
         ELSE IF Len(line) # 2
         THEN [pos |-> p + 1, eventType |-> eventType, data |-> data, exit |-> "nosep"]
         ELSE IF line[1] = "event"
         THEN ReadLoop(stream, tl, p + 1, line[2], data)
         ELSE IF line[1] = "data"
         THEN ReadLoop(stream, tl, p + 1, eventType, Append(data, line[2]))
         ELSE ReadLoop(stream, tl, p + 1, eventType, data)

----------------------------------------------------------------------------
(* Recv, the event decoder: messages.go:191-232.  Each case yields the new *)
(* s.event and the outcome: "event" (return &s.event, nil), "error"        *)
(* (return nil, err) or "panic" (nil pointer dereference).                 *)

\* json.Unmarshal accepts data.String() iff it is one JSON document; every
\* data line appends its value and "\n" (messages.go:184-185).
JsonValid(data) == Len(data) = 1 /\ data[1].valid

\* json.Unmarshal into a *Message: a nil pointer gets a new zero Message, a
\* non-nil pointer is decoded into in place; only the keys present are set.
UnmarshalMessage(old, mj) ==
    LET base == GetOr(old, ZeroMessage) IN
    [ID           |-> GetOr(mj.id, base.ID),
     InputTokens  |-> GetOr(mj.input_tokens, base.InputTokens),
     OutputTokens |-> GetOr(mj.output_tokens, base.OutputTokens)]

\* json.Unmarshal into a *MessageDelta, as above.
UnmarshalDelta(old, dj) ==
    LET base == GetOr(old, [StopReason |-> ""]) IN
    [StopReason |-> GetOr(dj.stop_reason, base.StopReason)]

\* case StreamEventMessageStart, StreamEventMessageStop (messages.go:194-197):
\* json.Unmarshal(data, &s.event)
DecodeMessageStartStop(ev, data) ==
    IF ~JsonValid(data)
    THEN [event |-> ev, kind |-> "error", err |-> <<"json">>]
    ELSE LET doc == data[1] IN
         [event |-> [ev EXCEPT
                        !.Type = GetOr(doc.type, ev.Type),
                        !.Message = IF Len(doc.message) = 0 THEN ev.Message
                                    ELSE Some(UnmarshalMessage(ev.Message, doc.message[1])),
                        !.Delta = IF Len(doc.delta) = 0 THEN ev.Delta
                                  ELSE Some(UnmarshalDelta(ev.Delta, doc.delta[1])),
                        !.Index = GetOr(doc.index, ev.Index)],
          kind |-> "event", err |-> <<>>]

\* DecodeMessageDelta with the usage replaced instead of accumulated
DecodeMessageDelta_Replace(ev, data) ==
    IF ~JsonValid(data)
    THEN [event |-> ev, kind |-> "error", err |-> <<"json">>]
    ELSE LET doc   == data[1]
             delta == IF Len(doc.delta) = 0 THEN [StopReason |-> ""]
                      ELSE [StopReason |-> GetOr(doc.delta[1].stop_reason, "")]
             ev1   == [ev EXCEPT !.Delta = Some(delta)]
         IN  IF Len(ev1.Message) = 0
             THEN [event |-> ev1, kind |-> "event", err |-> <<>>]
             ELSE IF Len(doc.usage) = 0
             THEN [event |-> ev1, kind |-> "panic", err |-> <<>>]
             ELSE [event |-> [ev1 EXCEPT !.Message[1].OutputTokens =
                                             doc.usage[1].output_tokens],
                   kind |-> "event", err |-> <<>>]

\* case StreamEventMessageDelta (messages.go:198-206)
DecodeMessageDelta(ev, data) ==
    IF ~JsonValid(data)
    THEN [event |-> ev, kind |-> "error", err |-> <<"json">>]
    ELSE LET doc   == data[1]
             delta == IF Len(doc.delta) = 0 THEN [StopReason |-> ""]
                      ELSE UnmarshalDelta(Absent, doc.delta[1])
             ev1   == [ev EXCEPT !.Delta = Some(delta)]
         IN  IF Len(ev1.Message) = 0
             THEN [event |-> ev1, kind |-> "event", err |-> <<>>]
             ELSE IF Len(doc.usage) = 0
             THEN [event |-> ev1, kind |-> "panic", err |-> <<>>]
             ELSE [event |-> [ev1 EXCEPT !.Message[1].OutputTokens =
                                             @ + doc.usage[1].output_tokens],
                   kind |-> "event", err |-> <<>>]

\* case StreamEventContentBlockStart, StreamEventContentBlockStop
\* (messages.go:207-212)
DecodeContentBlock(ev, data) ==
    IF ~JsonValid(data)
    THEN [event |-> ev, kind |-> "error", err |-> <<"json">>]
    ELSE LET doc == data[1] IN
         [event |-> [ev EXCEPT !.ContentBlock =
                        Some([Type |-> GetOr(doc.type, ""), Text |-> GetOr(doc.text, "")])],
          kind |-> "event", err |-> <<>>]

\* DecodeContentBlockDelta into a new event instead of the reused s.event
DecodeContentBlockDelta_FreshEvent(ev, data) ==
    IF ~JsonValid(data)
    THEN [event |-> ev, kind |-> "error", err |-> <<"json">>]
    ELSE LET doc == data[1]
             d   == GetOr(doc.delta, [stop_reason |-> Absent, type |-> Absent, text |-> Absent])
         IN  [event |-> [ZeroEvent EXCEPT !.Type = ev.Type,
                                          !.ContentBlock =
                            Some([Type |-> GetOr(d.type, ""), Text |-> GetOr(d.text, "")]),
                                          !.Index = GetOr(doc.index, 0)],
              kind |-> "event", err |-> <<>>]

\* case StreamEventContentBlockDelta (messages.go:213-222)
DecodeContentBlockDelta(ev, data) ==
    IF ~JsonValid(data)
    THEN [event |-> ev, kind |-> "error", err |-> <<"json">>]
    ELSE LET doc == data[1]
             d   == GetOr(doc.delta, [stop_reason |-> Absent, type |-> Absent, text |-> Absent])
         IN  [event |-> [ev EXCEPT !.ContentBlock =
                            Some([Type |-> GetOr(d.type, ""), Text |-> GetOr(d.text, "")]),
                                   !.Index = GetOr(doc.index, 0)],
              kind |-> "event", err |-> <<>>]

\* DecodeError without its case: the frame falls through to the default
DecodeError_AsTolerated(ev, data) ==
    [event |-> ev, kind |-> "event", err |-> <<>>]

\* case StreamEventError (messages.go:223-224)
DecodeError(ev, data) ==
    [event |-> ev, kind |-> "error", err |-> <<"stream error", data>>]

\* default (messages.go:225-229)
DecodeUnknown(ev, eventType, ignore) ==
    IF ~ignore
    THEN [event |-> ev, kind |-> "error", err |-> <<"unknown event type", eventType>>]
    ELSE [event |-> ev, kind |-> "event", err |-> <<>>]

\* messages.go:191-232
Decode(ev0, eventType, data, ignore) ==
    IF Len(data) = 0
    THEN [event |-> ev0, kind |-> "event", err |-> <<>>]
    ELSE LET ev == [ev0 EXCEPT !.Type = eventType] IN
         CASE eventType \in {StreamEventMessageStart, StreamEventMessageStop} ->
                  DecodeMessageStartStop(ev, data)
           [] eventType = StreamEventMessageDelta -> DecodeMessageDelta(ev, data)
           [] eventType \in {StreamEventContentBlockStart, StreamEventContentBlockStop} ->
                  DecodeContentBlock(ev, data)
           [] eventType = StreamEventContentBlockDelta -> DecodeContentBlockDelta(ev, data)
           [] eventType = StreamEventError -> DecodeError(ev, data)
           [] OTHER -> DecodeUnknown(ev, eventType, ignore)

\* MessageStream.Recv as a function of the handle's state (messages.go:151-233).
\* from, exit and buffered record where the call started reading, how its
\* loop ended and whether data.Len() > 0 then.
RecvResult(stream, tl, p, ev, ignore) ==
    LET r == ReadLoop(stream, tl, p, "", <<>>)
        d == IF r.exit = "ioerr"
             THEN [event |-> ev, kind |-> "error", err |-> <<"read">>]
             ELSE IF r.exit = "nosep"
             THEN [event |-> ev, kind |-> "error", err |-> <<"invalid SSE format">>]
             ELSE Decode(ev, r.eventType, r.data, ignore)
    IN  [pos |-> r.pos, event |-> d.event,
         ret |-> [kind |-> d.kind, err |-> d.err, exit |-> r.exit,
                  buffered |-> Len(r.data) > 0, from |-> p]]

NoRet == [kind |-> "none", err |-> <<>>, exit |-> "none", buffered |-> FALSE, from |-> 0]

----------------------------------------------------------------------------
(* The operations of a MessageStream, called in any order by its owner *)

\* MessageStream.Recv (messages.go:151-233).  A panic ends the program.
Recv ==
    /\ callerPc = "idle"
    /\ ret.kind # "panic"
    /\ LET r == RecvResult(Stream, tail, pos, event, ignoreUnknownEvents) IN
       /\ pos' = r.pos
       /\ event' = r.event
       /\ ret' = r.ret
    /\ UNCHANGED <<frames, tail, ignoreUnknownEvents, bodyCloseCalls, content, callerPc,
                   client, pair>>

\* MessageStream.Close (messages.go:143-145): every call closes the body.
Close ==
    /\ callerPc = "idle"
    /\ ret.kind # "panic"
    /\ bodyCloseCalls < MaxClose
    /\ bodyCloseCalls' = bodyCloseCalls + 1
    /\ UNCHANGED <<frames, tail, pos, event, ignoreUnknownEvents, ret, content, callerPc,
                   client, pair>>

\* MessageStream.ErrorUnknownEvent (messages.go:147-149)
ErrorUnknownEvent ==
    /\ callerPc = "idle"
    /\ ret.kind # "panic"
    /\ ignoreUnknownEvents' = FALSE
    /\ UNCHANGED <<frames, tail, pos, event, ret, bodyCloseCalls, content, callerPc,
                   client, pair>>

Handles == {1, 2}

\* A handle as StreamMessage returns it (messages.go:129-133)
NewHandle(fs) ==
    [frames |-> fs, pos |-> 1, event |-> ZeroEvent, ignoreUnknownEvents |-> TRUE,
     log |-> <<>>]

\* Two handles over empty bodies, not pulled
NoPair == [h |-> [i \in Handles |-> NewHandle(<<>>)], order |-> <<>>]

\* The handle as StreamMessage returns it (messages.go:129-133).
InitHandle ==
    /\ pos = 1
    /\ event = ZeroEvent
    /\ ignoreUnknownEvents = TRUE
    /\ ret = NoRet
    /\ bodyCloseCalls = 0
    /\ content = <<>>
    /\ client = <<>>
    /\ pair = NoPair

----------------------------------------------------------------------------
(* Streams of the general specification: every kind of frame *)

UnknownEvent == "future_event"

Alphabet ==
    { Frame(StreamEventMessageStart, MessageStartDoc("m1", 10, 0)),
      Frame(StreamEventMessageDelta, MessageDeltaDoc("end_turn", 1)),
      Frame(StreamEventMessageDelta, MessageDeltaNoUsageDoc("end_turn")),
      Frame(StreamEventContentBlockStart, ContentBlockDoc("")),
      Frame(StreamEventContentBlockDelta, ContentBlockDeltaDoc(0, "A")),
      Frame(StreamEventMessageStop, MessageStopDoc),
      Frame(StreamEventContentBlockStop, NotJson),
      Frame(StreamEventError, ErrorDoc),
      Frame(UnknownEvent, NoDoc),
      PingFrame,
      MalformedFrame }

Init ==
    /\ frames \in SeqsUpTo(Alphabet, MaxFrames)
    /\ tail \in {"EOF", "ERR"}
    /\ callerPc = "idle"
    /\ InitHandle

Next == Recv \/ Close \/ ErrorUnknownEvent

Spec == Init /\ [][Next]_vars

----------------------------------------------------------------------------
(* Streams of the usage specification: message_start with a zero and a     *)
(* non-zero initial count, message_delta with different usages.            *)

UsageAlphabet ==
    { Frame(StreamEventMessageStart, MessageStartDoc("m1", 10, 0)),
      Frame(StreamEventMessageStart, MessageStartDoc("m1", 10, 1)),
      Frame(StreamEventMessageDelta, MessageDeltaDoc("", 1)),
      Frame(StreamEventMessageDelta, MessageDeltaDoc("end_turn", 2)),
      Frame(StreamEventContentBlockStart, ContentBlockDoc("")),
      Frame(StreamEventContentBlockDelta, ContentBlockDeltaDoc(0, "A")),
      Frame(StreamEventMessageStop, MessageStopDoc) }

InitUsage ==
    /\ frames \in SeqsUpTo(UsageAlphabet, MaxUsageFrames)
    /\ tail = "EOF"
    /\ callerPc = "idle"
    /\ InitHandle

UsageSpec == InitUsage /\ [][Next]_vars

----------------------------------------------------------------------------
(* The consumer loop of TestMessagesStream (part_000:58-74).  A string is  *)
(* the sequence of its characters; every fragment is "" or one character.  *)

Chars(txt) == IF txt = "" THEN <<>> ELSE <<txt>>

\* One iteration of the for loop: Recv, the three exits, the accumulation.
\* A nil pointer dereference (in Recv, or of m.Delta after an error result,
\* which assert.NoError does not stop) ends the test.
TestIter ==
    /\ callerPc = "loop"
    /\ LET r == RecvResult(Stream, tail, pos, event, ignoreUnknownEvents)
           m == r.event
       IN  /\ pos' = r.pos
           /\ event' = r.event
           /\ ret' = r.ret
           /\ IF r.ret.kind = "eof"
              THEN callerPc' = "done" /\ content' = content
              ELSE IF r.ret.kind \in {"panic", "error"}
              THEN callerPc' = "crashed" /\ content' = content
              ELSE IF Len(m.Delta) # 0 /\ m.Delta[1].StopReason # ""
              THEN callerPc' = "done" /\ content' = content
              ELSE /\ callerPc' = "loop"
                   /\ content' = IF Len(m.ContentBlock) # 0
                                 THEN content \o Chars(m.ContentBlock[1].Text)
                                 ELSE content
                   /\ Len(content') <= MaxContent
    /\ UNCHANGED <<frames, tail, ignoreUnknownEvents, bodyCloseCalls, client, pair>>

TestAlphabet ==
    { Frame(StreamEventMessageStart, MessageStartDoc("m1", 10, 0)),
      Frame(StreamEventContentBlockStart, ContentBlockDoc("")),
      Frame(StreamEventContentBlockDelta, ContentBlockDeltaDoc(0, "A")),
      Frame(StreamEventContentBlockDelta, ContentBlockDeltaDoc(0, "B")),
      Frame(StreamEventContentBlockStop, ContentBlockDoc("")),
      Frame(StreamEventMessageDelta, MessageDeltaDoc("", 1)),
      Frame(StreamEventMessageDelta, MessageDeltaDoc("end_turn", 1)),
      Frame(StreamEventMessageStop, MessageStopDoc),
      Frame(StreamEventError, ErrorDoc),
      Frame(UnknownEvent, NoDoc),
      PingFrame }

InitTest ==
    /\ frames \in SeqsUpTo(TestAlphabet, MaxTestFrames)
    /\ tail = "EOF"
    /\ callerPc = "loop"
    /\ InitHandle

NextTest == TestIter

TestSpec == InitTest /\ [][NextTest]_vars

----------------------------------------------------------------------------
(* Frames and reader positions *)

RECURSIVE LinesIn(_, _)
LinesIn(fs, k) == IF k = 0 THEN 0 ELSE Len(fs[k]) + LinesIn(fs, k - 1)

\* Index of the first line of frame k (of the end of the stream for k = Len+1)
FrameStart(k) == 1 + LinesIn(frames, k - 1)

\* An event line, one data line, a blank line
IsDataFrame(f) == Len(f) = 3 /\ Len(f[1]) = 2 /\ Len(f[2]) = 2 /\ Len(f[3]) = 0

NameOf(f) == f[1][2]

DocOf(f) == f[2][2]

IsKind(f, name) == IsDataFrame(f) /\ NameOf(f) = name

\* The last Recv started at or before frame k and returned at its last line.
ReturnedAt(k) ==
    /\ ret.kind # "none"
    /\ k \in 1..Len(frames)
    /\ ret.from <= FrameStart(k)
    /\ pos = FrameStart(k + 1)

----------------------------------------------------------------------------
(* C1 *)

IsUsageDelta(f) ==
    /\ IsKind(f, StreamEventMessageDelta)
    /\ DocOf(f).valid
    /\ Len(DocOf(f).usage) = 1

IsContentFrame(f) ==
    /\ IsDataFrame(f)
    /\ NameOf(f) \in {StreamEventContentBlockStart, StreamEventContentBlockDelta,
                      StreamEventContentBlockStop}
    /\ DocOf(f).valid

IsFullStart(f) ==
    /\ IsKind(f, StreamEventMessageStart)
    /\ DocOf(f).valid
    /\ Len(DocOf(f).message) = 1
    /\ Len(DocOf(f).message[1].output_tokens) = 1

\* message_start, then message_delta frames with a usage and content-block
\* frames, then message_stop
UsageWellFormed(fs) ==
    /\ Len(fs) >= 2
    /\ IsFullStart(fs[1])
    /\ fs[Len(fs)] = Frame(StreamEventMessageStop, MessageStopDoc)
    /\ \A i \in 2..(Len(fs) - 1) : IsUsageDelta(fs[i]) \/ IsContentFrame(fs[i])

RECURSIVE SumDeltaUsage(_, _)
SumDeltaUsage(fs, k) ==
    IF k = 0 THEN 0
    ELSE SumDeltaUsage(fs, k - 1)
         + (IF IsUsageDelta(fs[k]) THEN DocOf(fs[k]).usage[1].output_tokens ELSE 0)

StartOutputTokens(fs) == DocOf(fs[1]).message[1].output_tokens[1]

ReturnedForStop == UsageWellFormed(frames) /\ ReturnedAt(Len(frames))

\* C1 as stated: for a well-formed stream, the Message of the event
\* returned for message_stop has an output-token count equal to the sum of
\* the usage.output_tokens of all message_delta frames.
C1_CountIsSumOfDeltas ==
    ReturnedForStop =>
        /\ ret.kind = "event"
        /\ Len(event.Message) = 1
        /\ event.Message[1].OutputTokens = SumDeltaUsage(frames, Len(frames))

\* C1 amended: the count equals the output-token count of the message_start
\* frame plus the sum of the usage.output_tokens of all message_delta frames.
C1_CountIsStartPlusSumOfDeltas ==
    ReturnedForStop =>
        /\ ret.kind = "event"
        /\ Len(event.Message) = 1
        /\ event.Message[1].OutputTokens =
               StartOutputTokens(frames) + SumDeltaUsage(frames, Len(frames))

\* Two message_delta frames with different usages were accumulated on top
\* of a non-zero initial count.
C1_Witness ==
    /\ ReturnedForStop
    /\ StartOutputTokens(frames) = 1
    /\ \E i, j \in 2..(Len(frames) - 1) :
          /\ i < j
          /\ IsUsageDelta(frames[i]) /\ IsUsageDelta(frames[j])
          /\ DocOf(frames[i]).usage[1].output_tokens
                 # DocOf(frames[j]).usage[1].output_tokens
    /\ event.Message[1].OutputTokens = 4

----------------------------------------------------------------------------
(* C2 *)

\* The last Recv left its loop at end-of-stream with data.Len() = 0.
ReachedEndUnbuffered == ret.exit = "eof" /\ ~ret.buffered

\* C2: a Recv that reaches end-of-stream with no data buffered reports the
\* stream-exhausted signal io.EOF (outcome "eof"), neither an event nor
\* another error, the first time and every later time.
C2_EndOfStreamReportsEOF == ReachedEndUnbuffered => ret.kind = "eof"

----------------------------------------------------------------------------
(* C3 *)

DataEventNames ==
    {StreamEventMessageStart, StreamEventMessageStop, StreamEventMessageDelta,
     StreamEventContentBlockStart, StreamEventContentBlockStop,
     StreamEventContentBlockDelta}

\* A recognized non-ping, non-error event name with a valid payload of its kind
IsWellFormedDataFrame(f) ==
    /\ IsDataFrame(f)
    /\ NameOf(f) \in DataEventNames
    /\ DocOf(f).valid
    /\ NameOf(f) = StreamEventMessageStart => Len(DocOf(f).message) = 1
    /\ NameOf(f) = StreamEventMessageDelta => Len(DocOf(f).delta) = 1
    /\ NameOf(f) = StreamEventContentBlockDelta => Len(DocOf(f).delta) = 1

\* The payload of frame f, as the event returned for it must carry it
CarriesPayloadOf(ev, f) ==
    LET doc == DocOf(f) IN
    CASE NameOf(f) = StreamEventMessageStart ->
             /\ Len(ev.Message) = 1
             /\ ev.Message[1].ID = GetOr(doc.message[1].id, "")
             /\ ev.Message[1].InputTokens = GetOr(doc.message[1].input_tokens, 0)
      [] NameOf(f) = StreamEventMessageDelta ->
             /\ Len(ev.Delta) = 1
             /\ ev.Delta[1].StopReason = GetOr(doc.delta[1].stop_reason, "")
      [] NameOf(f) \in {StreamEventContentBlockStart, StreamEventContentBlockStop} ->
             /\ Len(ev.ContentBlock) = 1
             /\ ev.ContentBlock[1].Text = GetOr(doc.text, "")
      [] NameOf(f) = StreamEventContentBlockDelta ->
             /\ Len(ev.ContentBlock) = 1
             /\ ev.ContentBlock[1].Text = GetOr(doc.delta[1].text, "")
             /\ ev.Index = GetOr(doc.index, 0)
      [] OTHER -> TRUE

\* C3: in a stream of well-formed data frames the Recv that starts at frame
\* k returns an event, has read exactly frame k, and the event has the
\* name and the payload of frame k.
C3_OneEventPerFrameInOrder ==
    (\A i \in 1..Len(frames) : IsWellFormedDataFrame(frames[i])) =>
        \A k \in 1..Len(frames) :
            (ret.kind # "none" /\ ret.from = FrameStart(k)) =>
                /\ ret.kind = "event"
                /\ pos = FrameStart(k + 1)
                /\ event.Type = NameOf(frames[k])
                /\ CarriesPayloadOf(event, frames[k])

----------------------------------------------------------------------------
(* C4 *)

IsErrorFrame(f) == IsKind(f, StreamEventError)

\* C4: the Recv that consumes an error frame with data returns no event
\* and an error carrying the raw payload, whatever frames follow.
C4_ErrorFrameYieldsStreamError ==
    \A k \in 1..Len(frames) :
        (IsErrorFrame(frames[k]) /\ ReturnedAt(k)) =>
            /\ ret.kind = "error"
            /\ ret.err[1] = "stream error"
            /\ ret.err[2] = <<DocOf(frames[k])>>

\* An error frame followed by more frames was consumed.
C4_Witness ==
    \E k \in 1..Len(frames) :
        /\ IsErrorFrame(frames[k]) /\ ReturnedAt(k)
        /\ k < Len(frames)
        /\ ret.kind = "error"

----------------------------------------------------------------------------
(* C5 *)

\* The last Recv read the lines of frame k.
ReadFrame(k) ==
    /\ ret.kind # "none"
    /\ k \in 1..Len(frames)
    /\ ret.from <= FrameStart(k)
    /\ FrameStart(k) < pos

\* C5: no event of Type ping is ever returned, and the Recv that reads a
\* ping frame without data does not return there: it reads on into the
\* following frame, or to the end of the stream when nothing follows.
C5_PingNotSurfaced ==
    /\ ret.kind = "event" => event.Type # StreamEventPing
    /\ \A k \in 1..Len(frames) :
          (frames[k] = PingFrame /\ ReadFrame(k)) =>
              IF k < Len(frames)
              THEN pos > FrameStart(k + 1)
              ELSE ret.exit \in {"eof", "ioerr"}

\* A Recv read a ping frame and returned the event of the frame after it.
C5_Witness ==
    \E k \in 1..Len(frames) :
        /\ frames[k] = PingFrame /\ ReadFrame(k)
        /\ k < Len(frames)
        /\ ReturnedAt(k + 1)
        /\ ret.kind = "event"
        /\ event.Type = NameOf(frames[k + 1])

----------------------------------------------------------------------------
(* C7 *)

\* C7: once a Recv has returned an error, no later Recv returns an event.
C7_ErroredIsTerminal == [][ret.kind = "error" => ret'.kind # "event"]_vars

----------------------------------------------------------------------------
(* C9 *)

\* C9: the response body is closed at most once, and it has been closed
\* once Recv has reported the end of the stream or an error.
C9_BodyReleasedExactlyOnce ==
    /\ bodyCloseCalls <= 1
    /\ (ret.kind = "error" \/ ReachedEndUnbuffered) => bodyCloseCalls = 1

----------------------------------------------------------------------------
(* C6 *)

IsTextDelta(f) == IsKind(f, StreamEventContentBlockDelta) /\ IsWellFormedDataFrame(f)

HasStopReason(f) ==
    /\ IsKind(f, StreamEventMessageDelta)
    /\ IsWellFormedDataFrame(f)
    /\ GetOr(DocOf(f).delta[1].stop_reason, "") # ""

IsToleratedUnknown(f) ==
    /\ IsDataFrame(f)
    /\ NameOf(f) \notin DataEventNames \cup {StreamEventPing, StreamEventError}

\* Recognized frames, pings and tolerated unknown events; message_start,
\* if present, comes first; the content_block_start/stop frames carry
\* empty text and every text fragment comes before the first stop reason.
TestWellFormed(fs) ==
    /\ \A i \in 2..Len(fs) : ~IsKind(fs[i], StreamEventMessageStart)
    /\ \A i \in 1..Len(fs) :
          \/ IsWellFormedDataFrame(fs[i])
          \/ fs[i] = PingFrame
          \/ IsToleratedUnknown(fs[i])
    /\ \A i \in 1..Len(fs) :
          (IsDataFrame(fs[i])
             /\ NameOf(fs[i]) \in {StreamEventContentBlockStart, StreamEventContentBlockStop})
          => GetOr(DocOf(fs[i]).text, "") = ""
    /\ \A i, j \in 1..Len(fs) : (HasStopReason(fs[i]) /\ IsTextDelta(fs[j])) => j < i

RECURSIVE Fragments(_, _)
Fragments(fs, k) ==
    IF k = 0 THEN <<>>
    ELSE Fragments(fs, k - 1)
         \o (IF IsTextDelta(fs[k]) THEN Chars(GetOr(DocOf(fs[k]).delta[1].text, ""))
             ELSE <<>>)

\* C6: over a well-formed stream the test's accumulation ends with exactly
\* the concatenation of the text fragments of the content_block_delta
\* frames, in order.
C6_CallerReconstructsText ==
    (TestWellFormed(frames) /\ callerPc = "done") =>
        content = Fragments(frames, Len(frames))

----------------------------------------------------------------------------
(* C8 *)

\* C8: the test's loop over a finite stream stops.  A Recv at the end of
\* the stream leaves the handle as it found it, so the loop stops at all
\* only if it is left by the iteration whose Recv reached the end.
C8_CallerStopsAtEndOfStream == ReachedEndUnbuffered => callerPc # "loop"

----------------------------------------------------------------------------
(* The Client (client.go): construction, request building and the two      *)
(* calls that send a request.                                              *)

\* http.StatusBadRequest, the threshold of messages.go:124 and client.go:167
StatusBadRequest == 400

HeaderNames ==
    {"Content-Type", "Accept", "User-Agent", "anthropic-version", "anthropic-beta",
     "X-API-Key", "Authorization"}

NoHeaders == [h \in HeaderNames |-> Absent]

\* Client.newRequest (client.go:129-158): the headers of the request
NewRequestHeaders(c) ==
    LET h1 == [NoHeaders EXCEPT !["Content-Type"] = Some("application/json"),
                                !["Accept"] = Some("application/json"),
                                !["User-Agent"] = Some("anthropic-go/0.1.0"),
                                !["anthropic-version"] = Some(c.apiVersion)]
        h2 == IF c.betaVersion # ""
              THEN [h1 EXCEPT !["anthropic-beta"] = Some(c.apiVersion)]
              ELSE h1
    IN  IF c.apiKey # ""
        THEN [h2 EXCEPT !["X-API-Key"] = Some(c.apiKey)]
        ELSE IF c.authToken # ""
        THEN [h2 EXCEPT !["Authorization"] = Some(<<"Bearer", c.authToken>>)]
        ELSE h2

\* The status codes a response may carry, and a transport failure of
\* httpClient.Do (status 0)
Statuses == {0, 200, 204, 299, 300, 304, 399, 400, 404, 500}

\* NewClient (client.go:103-127) with any of WithAPIKey, WithAuthToken,
\* WithApiVersion and WithBetaVersion (client.go:43-101); "" is the default
\* of the key, the token and the beta version.
NewClient(apiKey, authToken, apiVersion, betaVersion) ==
    [apiKey |-> apiKey, authToken |-> authToken, apiVersion |-> apiVersion,
     betaVersion |-> betaVersion, op |-> "none", headers |-> NoHeaders,
     status |-> 0, result |-> "none"]

\* Client.StreamMessage (messages.go:110-134): "stream" is a MessageStream
\* and no error, "error" is no MessageStream and an error.
StreamMessage ==
    /\ \E st \in Statuses :
          client' = [client EXCEPT
                        !.op = "StreamMessage",
                        !.headers = [NewRequestHeaders(client) EXCEPT
                                         !["Accept"] = Some("text/event-stream")],
                        !.status = st,
                        !.result = IF st = 0 THEN "error"
                                   ELSE IF st >= StatusBadRequest THEN "error"
                                   ELSE "stream"]
    /\ UNCHANGED <<frames, tail, pos, event, ignoreUnknownEvents, ret, bodyCloseCalls,
                   content, callerPc, pair>>

\* Client.CreateMessage with Client.do (messages.go:95-108, client.go:160-179):
\* "message" is a Message and no error.  bodyOk: the body decodes as JSON.
CreateMessage ==
    /\ \E st \in Statuses, bodyOk \in BOOLEAN :
          client' = [client EXCEPT
                        !.op = "CreateMessage",
                        !.headers = NewRequestHeaders(client),
                        !.status = st,
                        !.result = IF st = 0 THEN "error"
                                   ELSE IF st >= StatusBadRequest THEN "error"
                                   ELSE IF ~bodyOk THEN "error"
                                   ELSE "message"]
    /\ UNCHANGED <<frames, tail, pos, event, ignoreUnknownEvents, ret, bodyCloseCalls,
                   content, callerPc, pair>>

InitClient ==
    /\ client \in {NewClient(k, t, v, b) :
                      k \in {"", "key"}, t \in {"", "token"},
                      v \in {"2023-06-01", "2023-01-01"},
                      b \in {"", "beta-1", "beta-2"}}
    /\ frames = <<>>
    /\ tail = "EOF"
    /\ callerPc = "idle"
    /\ pos = 1
    /\ event = ZeroEvent
    /\ ignoreUnknownEvents = TRUE
    /\ ret = NoRet
    /\ bodyCloseCalls = 0
    /\ content = <<>>
    /\ pair = NoPair

NextClient == StreamMessage \/ CreateMessage

ClientSpec == InitClient /\ [][NextClient]_vars

----------------------------------------------------------------------------
(* C11 *)

\* C11: for a response whose status is not 2xx, StreamMessage returns an
\* error and no MessageStream and CreateMessage an error and no Message.
C11_NonSuccessStatusIsError ==
    (client.op # "none" /\ client.status # 0 /\ client.status \notin 200..299)
        => client.result = "error"

----------------------------------------------------------------------------
(* C20 *)

\* C20: every request carries the configured API version in
\* anthropic-version, and anthropic-beta exactly when a non-empty beta
\* version is configured, with that beta version as its value.
C20_VersionHeaders ==
    client.op # "none" =>
        /\ client.headers["anthropic-version"] = Some(client.apiVersion)
        /\ (Len(client.headers["anthropic-beta"]) = 1) <=> (client.betaVersion # "")
        /\ client.betaVersion # "" =>
               client.headers["anthropic-beta"] = Some(client.betaVersion)

----------------------------------------------------------------------------
(* C12 *)

\* C12: with tolerance enabled, the Recv that consumes a frame with an
\* unrecognized event name and data returns an event whose Type is the raw
\* name and whose Message, Delta and ContentBlock are all absent.
C12_UnknownEventHasNoPayload ==
    \A k \in 1..Len(frames) :
        (ignoreUnknownEvents /\ IsToleratedUnknown(frames[k]) /\ ReturnedAt(k)) =>
            /\ ret.kind = "event"
            /\ event.Type = NameOf(frames[k])
            /\ Len(event.Message) = 0
            /\ Len(event.Delta) = 0
            /\ Len(event.ContentBlock) = 0

----------------------------------------------------------------------------
(* C16 *)

\* This step is a Recv that starts at or before frame k and returns at its
\* last line.
RecvReturnsAt(k) ==
    /\ k \in 1..Len(frames)
    /\ ret'.from = pos
    /\ pos <= FrameStart(k)
    /\ pos' = FrameStart(k + 1)

\* A message_delta frame whose payload has a delta and no usage
IsDeltaWithoutUsage(f) ==
    /\ IsKind(f, StreamEventMessageDelta)
    /\ DocOf(f).valid
    /\ Len(DocOf(f).delta) = 1
    /\ Len(DocOf(f).usage) = 0

\* C16: a message_delta frame without usage, received after a
\* message_start, is decoded without crash or error: Recv returns the event
\* with the decoded delta and leaves the Message's count as it was.
C16_UsageIsOptional ==
    [][\A k \in 1..Len(frames) :
          (IsDeltaWithoutUsage(frames[k]) /\ RecvReturnsAt(k) /\ Len(event.Message) = 1) =>
              /\ ret'.kind = "event"
              /\ event'.Delta =
                     Some([StopReason |-> GetOr(DocOf(frames[k]).delta[1].stop_reason, "")])
              /\ event'.Message = event.Message]_vars

----------------------------------------------------------------------------
(* Streams of the framing specification: frames without data, without an   *)
(* event line, and with a line that has no separator in each position.     *)

\* data without an event line
DataOnlyFrame == <<DataLine(NoDoc), BlankLine>>

\* an event name other than ping and no data
EventOnlyFrame == <<EventLine(StreamEventContentBlockStop), BlankLine>>

NoSepFirstFrame ==
    <<NoSepLine, EventLine(StreamEventContentBlockDelta),
      DataLine(ContentBlockDeltaDoc(0, "A")), BlankLine>>

NoSepLastFrame ==
    <<EventLine(StreamEventContentBlockDelta), DataLine(ContentBlockDeltaDoc(0, "A")),
      NoSepLine, BlankLine>>

FrameAlphabet ==
    { Frame(StreamEventMessageStart, MessageStartDoc("m1", 10, 0)),
      Frame(StreamEventContentBlockDelta, ContentBlockDeltaDoc(0, "A")),
      Frame(UnknownEvent, NoDoc),
      DataOnlyFrame,
      EventOnlyFrame,
      PingFrame,
      NoSepFirstFrame,
      MalformedFrame,
      NoSepLastFrame }

InitFrame ==
    /\ frames \in SeqsUpTo(FrameAlphabet, MaxFrames)
    /\ tail \in {"EOF", "ERR"}
    /\ callerPc = "idle"
    /\ InitHandle

FrameSpec == InitFrame /\ [][Next]_vars

----------------------------------------------------------------------------
(* C13 *)

\* Data under an event name that is none of the eight kinds, or under no
\* event line at all
IsUnknownWithData(f) ==
    \/ IsToleratedUnknown(f)
    \/ (Len(f) = 2 /\ Len(f[1]) = 2 /\ f[1][1] = "data")

\* C13: with tolerance disabled, the Recv that consumes a frame with data
\* and no known event name fails with an unknown-event error.
C13_UnknownEventIsError ==
    [][\A k \in 1..Len(frames) :
          (~ignoreUnknownEvents /\ IsUnknownWithData(frames[k]) /\ RecvReturnsAt(k)) =>
              /\ ret'.kind = "error"
              /\ ret'.err[1] = "unknown event type"]_vars

----------------------------------------------------------------------------
(* C14 *)

\* This step is a Recv that reads line i of the stream.
RecvReads(i) == ret'.from = pos /\ pos <= i /\ i < pos'

\* C14: the Recv that reads a non-blank line without separator returns the
\* malformed-frame error and no event; it stops at that line and s.event
\* is left as it was.
C14_NoSeparatorIsError ==
    [][\A i \in 1..Len(Stream) :
          (Len(Stream[i]) = 1 /\ RecvReads(i)) =>
              /\ ret'.kind = "error"
              /\ ret'.err = <<"invalid SSE format">>
              /\ pos' = i + 1
              /\ event' = event]_vars

\* A Recv read an event line and a data line, then the line without
\* separator, and returned the error.
C14_Witness ==
    /\ ret.exit = "nosep"
    /\ ret.kind = "error"
    /\ ret.from = pos - 3
    /\ Len(Stream[pos - 1]) = 1
    /\ Len(Stream[pos - 2]) = 2 /\ Stream[pos - 2][1] = "data"

----------------------------------------------------------------------------
(* C15 *)

\* An event line and the blank line, no data
IsEventOnly(f) == Len(f) = 2 /\ Len(f[1]) = 2 /\ f[1][1] = "event" /\ Len(f[2]) = 0

\* C15: the Recv that reads a frame with an event name and no data does
\* not return at the frame's blank line.
C15_DatalessFrameNotReturned ==
    \A k \in 1..Len(frames) :
        (IsEventOnly(frames[k]) /\ ReadFrame(k)) =>
            ~(pos = FrameStart(k + 1) /\ ret.exit = "blank")

----------------------------------------------------------------------------
(* Streams of the message specification: a second message_start, payloads  *)
(* that leave out keys of the message, message_stop with a message.        *)

\* {"type":"message_start","message":{"id":id}}: no usage in the message
PartialMessageStartDoc(id) ==
    [NoDoc EXCEPT !.type = Some("message_start"),
                  !.message = Some([id |-> Some(id), input_tokens |-> Absent,
                                    output_tokens |-> Absent])]

\* {"type":"message_stop","message":{"id":id}}
MessageStopWithMessageDoc(id) ==
    [PartialMessageStartDoc(id) EXCEPT !.type = Some("message_stop")]

MessageAlphabet ==
    { Frame(StreamEventMessageStart, MessageStartDoc("m1", 10, 0)),
      Frame(StreamEventMessageStart, PartialMessageStartDoc("m2")),
      Frame(StreamEventMessageDelta, MessageDeltaDoc("end_turn", 1)),
      Frame(StreamEventContentBlockStart, ContentBlockDoc("")),
      Frame(StreamEventContentBlockDelta, ContentBlockDeltaDoc(0, "A")),
      Frame(StreamEventContentBlockStop, ContentBlockDoc("")),
      Frame(UnknownEvent, NoDoc),
      Frame(StreamEventMessageStop, MessageStopDoc),
      Frame(StreamEventMessageStop, MessageStopWithMessageDoc("m3")) }

InitMessage ==
    /\ frames \in SeqsUpTo(MessageAlphabet, MaxFrames)
    /\ tail = "EOF"
    /\ callerPc = "idle"
    /\ InitHandle

MessageSpec == InitMessage /\ [][Next]_vars

----------------------------------------------------------------------------
(* C17 *)

\* The Message a payload describes: the keys it has, zero values otherwise
MessageOf(mj) ==
    [ID           |-> GetOr(mj.id, ""),
     InputTokens  |-> GetOr(mj.input_tokens, 0),
     OutputTokens |-> GetOr(mj.output_tokens, 0)]

IsStartWithMessage(f) ==
    /\ IsKind(f, StreamEventMessageStart)
    /\ DocOf(f).valid
    /\ Len(DocOf(f).message) = 1

\* C17: after Recv returns for a message_start frame the event's Message
\* is exactly the message of that frame's payload; nothing is carried over
\* from an earlier Message.
C17_MessageStartReplaces ==
    \A k \in 1..Len(frames) :
        (IsStartWithMessage(frames[k]) /\ ReturnedAt(k)) =>
            /\ ret.kind = "event"
            /\ event.Message = Some(MessageOf(DocOf(frames[k]).message[1]))

----------------------------------------------------------------------------
(* C19 *)

\* This step decodes a frame that writes the Message: message_start, or
\* message_stop with a message in its payload.
DecodesMessage ==
    \E k \in 1..Len(frames) :
        /\ RecvReturnsAt(k)
        /\ \/ IsKind(frames[k], StreamEventMessageStart)
           \/ (IsKind(frames[k], StreamEventMessageStop) /\ Len(DocOf(frames[k]).message) = 1)

\* This step decodes a message_delta frame.
DecodesMessageDelta ==
    \E k \in 1..Len(frames) :
        RecvReturnsAt(k) /\ IsKind(frames[k], StreamEventMessageDelta)

\* C19: once a message_start has been decoded, every later successful Recv
\* other than one for a frame that carries a message returns an event that
\* still carries that Message; only message_delta changes it, and only its
\* output-token count.
C19_MessageIsCarried ==
    [][(Len(event.Message) = 1 /\ ret'.kind = "event" /\ ~DecodesMessage) =>
          /\ Len(event'.Message) = 1
          /\ event'.Message[1].ID = event.Message[1].ID
          /\ event'.Message[1].InputTokens = event.Message[1].InputTokens
          /\ (event'.Message[1].OutputTokens # event.Message[1].OutputTokens)
                 => DecodesMessageDelta]_vars

\* After message_start and a message_delta that raised the count, the
\* event of a later content-block or unknown frame still carries the
\* Message with the raised count.
C19_Witness ==
    /\ ReturnedAt(3)
    /\ IsKind(frames[1], StreamEventMessageStart)
    /\ IsKind(frames[2], StreamEventMessageDelta)
    /\ NameOf(frames[3]) \in {StreamEventContentBlockDelta, UnknownEvent}
    /\ ret.kind = "event"
    /\ event.Type = NameOf(frames[3])
    /\ event.Message = Some([ID |-> "m1", InputTokens |-> 10, OutputTokens |-> 1])

----------------------------------------------------------------------------
(* Two MessageStream handles of one program, each over its own response    *)
(* body and each pulled by its own consumer; the pulls interleave in any   *)
(* order.  pair.h[i] is handle i with the results its Recv calls returned, *)
(* pair.order the handles in the order they were pulled.                   *)

\* What a Recv call hands to its caller: the outcome, the error and the
\* event as the caller sees it on return
ResultOf(r) == [kind |-> r.ret.kind, err |-> r.ret.err, event |-> r.event]

\* The event Recv on handle i works on, if it were one event of the package
\* shared by all handles: the one the last pull left
HandleEvent_Shared(pr, i) ==
    IF Len(pr.order) = 0 THEN ZeroEvent ELSE pr.h[pr.order[Len(pr.order)]].event

\* The event Recv on handle i works on: s.event, a field of the handle
\* (messages.go:139, 192-232)
HandleEvent(pr, i) == pr.h[i].event

\* MessageStream.Recv on handle i (messages.go:151-233).  A panic ends the
\* program and with it both consumers.
PairRecv(i) ==
    /\ \A j \in Handles : \A n \in 1..Len(pair.h[j].log) : pair.h[j].log[n].kind # "panic"
    /\ Len(pair.h[i].log) < MaxPairRecv
    /\ LET hd == pair.h[i]
           r  == RecvResult(Flatten(hd.frames), "EOF", hd.pos, HandleEvent(pair, i),
                            hd.ignoreUnknownEvents)
       IN  pair' = [h |-> [pair.h EXCEPT ![i] =
                              [hd EXCEPT !.pos = r.pos, !.event = r.event,
                                         !.log = Append(hd.log, ResultOf(r))]],
                    order |-> Append(pair.order, i)]
    /\ UNCHANGED <<frames, tail, pos, event, ignoreUnknownEvents, ret, bodyCloseCalls,
                   content, callerPc, client>>

PairAlphabet ==
    { Frame(StreamEventMessageStart, MessageStartDoc("m1", 10, 0)),
      Frame(StreamEventMessageDelta, MessageDeltaDoc("end_turn", 1)),
      Frame(StreamEventContentBlockDelta, ContentBlockDeltaDoc(0, "A")),
      Frame(UnknownEvent, NoDoc),
      Frame(StreamEventError, ErrorDoc) }

InitPair ==
    /\ \E f1, f2 \in SeqsUpTo(PairAlphabet, MaxPairFrames) :
          pair = [h |-> [i \in Handles |-> NewHandle(IF i = 1 THEN f1 ELSE f2)],
                  order |-> <<>>]
    /\ frames = <<>>
    /\ tail = "EOF"
    /\ callerPc = "idle"
    /\ pos = 1
    /\ event = ZeroEvent
    /\ ignoreUnknownEvents = TRUE
    /\ ret = NoRet
    /\ bodyCloseCalls = 0
    /\ content = <<>>
    /\ client = <<>>

NextPair == \E i \in Handles : PairRecv(i)

PairSpec == InitPair /\ [][NextPair]_vars

----------------------------------------------------------------------------
(* C18 *)

\* A handle over the frames fs after n Recv calls with no other handle
\* around
RECURSIVE SoloRun(_, _)
SoloRun(fs, n) ==
    IF n = 0 THEN NewHandle(fs)
    ELSE LET hd == SoloRun(fs, n - 1)
             r  == RecvResult(Flatten(fs), "EOF", hd.pos, hd.event, hd.ignoreUnknownEvents)
         IN  [hd EXCEPT !.pos = r.pos, !.event = r.event,
                        !.log = Append(hd.log, ResultOf(r))]

\* C18: however the pulls on the two handles interleave, each handle has
\* returned the results it returns when it is pulled alone.
C18_HandlesAreIndependent ==
    \A i \in Handles :
        pair.h[i].log = SoloRun(pair.h[i].frames, Len(pair.h[i].log)).log

\* Pulls on two different streams alternated: 1, 2, 1, 2; handle 1 carries
\* a Message and handle 2 none.
C18_Witness ==
    /\ pair.order = <<1, 2, 1, 2>>
    /\ pair.h[1].frames # pair.h[2].frames
    /\ Len(pair.h[1].event.Message) = 1
    /\ Len(pair.h[2].event.Message) = 0
    /\ pair.h[2].log[2].kind = "event"

====
